---- MODULE Spec2Model ----
(***************************************************************************)
(* The ingestion and retrieval engine of EmbeddedSystemsTools              *)
(* (src/src/tools/base.py) and its caller EmbeddedSystemsAgent             *)
(* (src/src/agent/agent.py): single-file ingestion (add_knowledge),        *)
(* extraction (_load_file), chunking, the ledger (ingested_files), the     *)
(* corpus index (vectorstore) and the directory batch (ingest_directory).  *)
(*                                                                         *)
(* Text is abstracted to its lengths: a page is [len, ws], len characters  *)
(* of which ws are leading/trailing whitespace.  A formatted message is    *)
(* the sequence of the literals and values its f-string concatenates, so   *)
(* that Python's substring test `lit in message` is membership of a token. *)
(***************************************************************************)
EXTENDS Integers, Sequences, FiniteSets, Bags, TLC

(***************************************************************************)
(* Bounds of the model.                                                    *)
(***************************************************************************)
MaxOps == 3
MaxFaults == 1

(***************************************************************************)
(* Program constants.                                                      *)
(***************************************************************************)
TEXT_SPLITTER_CHUNK_SIZE == 1000
TEXT_SPLITTER_CHUNK_OVERLAP == 200
PDF_MIN_SIZE == 100
PDF_MIN_PAGE_TEXT == 50
TEXT_MIN_CONTENT == 10
ERROR_TEXT_LIMIT == 100

SUPPORTED_EXTENSIONS ==
    [e \in {".pdf", ".txt", ".md", ".adoc", ".ino", ".pde", ".cpp", ".c", ".h",
            ".hpp", ".py", ".java", ".json", ".csv", ".yaml", ".yml",
            ".properties", ".sh", ".sb3", ".jpg", ".png", ".svg", ".webm",
            ".gz", ".tar", ".jar", ".fzz", ".vlw", ".ttf"} |->
       CASE e = ".pdf" -> "PDF Document"
         [] e = ".txt" -> "Text File"
         [] e = ".md" -> "Markdown"
         [] e = ".adoc" -> "AsciiDoc"
         [] e = ".ino" -> "Arduino Code"
         [] e = ".pde" -> "Processing Code"
         [] e = ".cpp" -> "C++ Code"
         [] e = ".c" -> "C Code"
         [] e = ".h" -> "Header File"
         [] e = ".hpp" -> "C++ Header"
         [] e = ".py" -> "Python Code"
         [] e = ".java" -> "Java Code"
         [] e = ".json" -> "JSON Data"
         [] e = ".csv" -> "CSV Data"
         [] e \in {".yaml", ".yml"} -> "YAML Config"
         [] e = ".properties" -> "Properties Config"
         [] e = ".sh" -> "Shell Script"
         [] e = ".sb3" -> "Scratch Project"
         [] e \in {".jpg", ".png"} -> "Image"
         [] e = ".svg" -> "Vector Image"
         [] e = ".webm" -> "Video"
         [] e \in {".gz", ".tar"} -> "Archive"
         [] e = ".jar" -> "Java Archive"
         [] e = ".fzz" -> "Fritzing"
         [] e \in {".vlw", ".ttf"} -> "Font"]

\* mutant: the skip table without the binary extensions
SKIP_EXTENSIONS_GitOnly == {".idx", ".pack", ".rev"}

SKIP_EXTENSIONS ==
    {".sb3", ".jpg", ".png", ".svg", ".webm", ".gz", ".tar", ".jar", ".fzz",
     ".vlw", ".ttf", ".idx", ".pack", ".rev"}

TEXT_DOC_EXTENSIONS == {".txt", ".md", ".adoc"}

CODE_EXTENSIONS ==
    {".ino", ".pde", ".cpp", ".c", ".h", ".hpp", ".py", ".java", ".json",
     ".csv", ".yaml", ".yml", ".properties", ".sh"}

(***************************************************************************)
(* The file system the engine runs against: a fixed tree, with the         *)
(* contents of its regular files as state.  "kb/link.txt" is a symbolic    *)
(* link to "kb/a.txt"; "kb/sub/a.txt" shares a basename with "kb/a.txt";   *)
(* "kb/pack.idx" has an extension of the skip table only; "pics" holds no  *)
(* eligible file; "missing" does not exist.                                *)
(***************************************************************************)
GlobOrder ==
    <<"kb/a.txt", "kb/doc.pdf", "kb/img.png", "kb/link.txt", "kb/notes.xyz",
      "kb/pack.idx", "kb/sub", "kb/sub/MAIN.PY", "kb/sub/a.txt",
      "pics/logo.png">>

Dirs == {"kb", "kb/sub", "pics"}

Entries == {GlobOrder[i] : i \in 1..Len(GlobOrder)}

Parent(p) ==
    CASE p \in {"kb/a.txt", "kb/doc.pdf", "kb/img.png", "kb/link.txt",
                "kb/notes.xyz", "kb/pack.idx", "kb/sub", "kb/gone.txt"} -> "kb"
      [] p \in {"kb/sub/MAIN.PY", "kb/sub/a.txt"} -> "kb/sub"
      [] p = "pics/logo.png" -> "pics"
      [] OTHER -> ""

\* Path.name
Name(p) ==
    CASE p \in {"kb/a.txt", "kb/sub/a.txt"} -> "a.txt"
      [] p = "kb/doc.pdf" -> "doc.pdf"
      [] p = "kb/img.png" -> "img.png"
      [] p = "kb/link.txt" -> "link.txt"
      [] p = "kb/notes.xyz" -> "notes.xyz"
      [] p = "kb/pack.idx" -> "pack.idx"
      [] p = "kb/sub/MAIN.PY" -> "MAIN.PY"
      [] p = "pics/logo.png" -> "logo.png"
      [] p = "kb/gone.txt" -> "gone.txt"
      [] p = "kb/sub" -> "sub"
      [] OTHER -> p

\* Path.suffix
Suffix(p) ==
    CASE p \in {"kb/a.txt", "kb/sub/a.txt", "kb/link.txt", "kb/gone.txt"} -> ".txt"
      [] p = "kb/doc.pdf" -> ".pdf"
      [] p \in {"kb/img.png", "pics/logo.png"} -> ".png"
      [] p = "kb/notes.xyz" -> ".xyz"
      [] p = "kb/pack.idx" -> ".idx"
      [] p = "kb/sub/MAIN.PY" -> ".PY"
      [] OTHER -> ""

\* str.lower on the suffixes of the tree
Lower(s) == IF s = ".PY" THEN ".py" ELSE s

\* Path.resolve: the canonical path, symbolic links followed
Resolve(p) == IF p = "kb/link.txt" THEN "kb/a.txt" ELSE p

Files == {Resolve(p) : p \in Entries \ Dirs}

IsDir(p) == p \in Dirs

IsFile(p) == Resolve(p) \in Files

Exists(p) == IsDir(p) \/ IsFile(p)

(***************************************************************************)
(* File contents.  size is st_size; readable is whether open()/the PDF     *)
(* parser succeeds; pages are the texts read (one for a text file, one per *)
(* page for a PDF).                                                        *)
(***************************************************************************)
Page(len, ws) == [len |-> len, ws |-> ws]

Content(size, readable, pages) ==
    [size |-> size, readable |-> readable, pages |-> pages]

TxtTiny == Content(2, TRUE, <<Page(2, 0)>>)
TxtPadded == Content(15, TRUE, <<Page(15, 8)>>)
TxtSmall == Content(250, TRUE, <<Page(250, 0)>>)
TxtBig == Content(2500, TRUE, <<Page(2500, 0)>>)
TxtLocked == Content(250, FALSE, <<>>)
PdfStub == Content(50, TRUE, <<Page(40, 0)>>)
PdfScanned == Content(5000, TRUE, <<Page(12, 3), Page(0, 0)>>)
PdfGood == Content(5000, TRUE, <<Page(30, 0), Page(1200, 0)>>)
PdfMalformed == Content(5000, FALSE, <<>>)
Opaque == Content(4096, TRUE, <<>>)

\* The contents each file of the tree may take.
Alternatives(f) ==
    CASE f = "kb/a.txt" -> {TxtSmall, TxtBig, TxtTiny}
      [] f = "kb/sub/a.txt" -> {TxtBig, TxtPadded}
      [] f = "kb/sub/MAIN.PY" -> {TxtLocked, TxtSmall}
      [] f = "kb/doc.pdf" -> {PdfGood, PdfStub, PdfScanned, PdfMalformed}
      [] OTHER -> {Opaque}

InitialContent(f) ==
    CASE f = "kb/a.txt" -> TxtSmall
      [] f = "kb/sub/a.txt" -> TxtBig
      [] f = "kb/sub/MAIN.PY" -> TxtLocked
      [] f = "kb/doc.pdf" -> PdfGood
      [] OTHER -> Opaque

VARIABLES
    fs,              \* contents of the regular files
    vectorstore,     \* "Chroma" or "None": self.vectorstore
    collection,      \* the chunks the vector store holds (a bag)
    ingested_files,  \* self.ingested_files: filename -> record
    pc,              \* "idle", "loop" (inside ingest_directory), "done", "raised"
    batch,           \* the locals of the running / last ingest_directory call
    report,          \* the tuple the last ingest_directory call returned
    last,            \* the last add_knowledge call and what it returned
    snapshot,        \* history: filename -> the content its ledger entry was made from
    nops,            \* ingestion calls made and edits done so far
    nfaults,         \* exceptions raised so far
    scanned,         \* the last scan_directory call and the dict it returned
    searched,        \* the last search_knowledge call and what it returned
    printed,         \* the outcome line the CLI printed last
    startup,         \* the last construction: what it scanned and decided
    threads          \* the locals of the ingest_directory calls on threads

vars ==
    <<fs, vectorstore, collection, ingested_files, pc, batch, report, last,
      snapshot, nops, nfaults, scanned, searched, printed, startup, threads>>

(***************************************************************************)
(* Messages: the f-strings of base.py as token sequences.                  *)
(***************************************************************************)
MsgFileNotFound(file_path) == <<"File not found: ", file_path>>

MsgUnsupported(file_ext) == <<"Unsupported file type: ", file_ext>>

MsgBinarySkipped(file_ext) == <<"Binary file skipped", ": ", file_ext>>

MsgNoContent(name) == <<"No content extracted", " from ", name>>

MsgNoChunks(name) == <<"No text chunks created from ", name>>

MsgAdded(n, name, type) ==
    <<"Added ", ToString(n), " chunks from ", name, " (", type, ")">>

MsgNoVectorStore == <<"Vector store not available">>

\* len(str(e)) of the exception texts of the model
StrLen(text) ==
    CASE text = "splitter failure" -> 16
      [] text = "[Errno 2] No such file or directory" -> 35
      [] text = "embedding backend failure <240 characters>" -> 240
      [] text = "embedding backend failure <first 100 characters>" -> 100
      [] OTHER -> 0

\* mutant: the text is not cut
TruncateNever(text, limit) == text

\* text[:limit], on the exception texts of the model
Truncate(text, limit) ==
    IF StrLen(text) <= limit THEN text
    ELSE IF text = "embedding backend failure <240 characters>" /\ limit = 100
         THEN "embedding backend failure <first 100 characters>"
    ELSE text

MsgError(e) == <<"Error: ", Truncate(e, ERROR_TEXT_LIMIT)>>

MsgDirNotFound(directory_path) == <<"Directory not found: ", directory_path>>

MsgNoSupportedFiles == <<"No supported files found in directory">>

\* Python's `literal in message`
Contains(message, literal) ==
    \E i \in 1..Len(message) : message[i] = literal

(***************************************************************************)
(* The steps of single-file ingestion that may raise, and what they raise. *)
(* "split": text_splitter.split_documents; "write": vectorstore            *)
(* .add_documents, before anything is stored; "stat": file_path.stat() for *)
(* the ledger entry (the file vanished after it was read).                 *)
(***************************************************************************)
Faults == {"none", "split", "write", "stat"}

Raised(fault) ==
    CASE fault = "split" -> "splitter failure"
      [] fault = "write" -> "embedding backend failure <240 characters>"
      [] fault = "stat" -> "[Errno 2] No such file or directory"
      [] OTHER -> ""

(***************************************************************************)
(* _load_file: the documents extracted from a file, <<>> for None.         *)
(***************************************************************************)
\* mutant: the whitespace is not stripped before the length test
StrippedNot(page) == page.len

\* len(text.strip())
Stripped(page) == page.len - page.ws

Documents(file_path, content) ==
    [i \in 1..Len(content.pages) |->
        [page_content |-> content.pages[i],
         metadata |-> IF Lower(Suffix(file_path)) = ".pdf"
                      THEN [source |-> file_path, page |-> i - 1]
                      ELSE [source |-> file_path]]]

\* mutant: a text of exactly the minimum length is dropped as well
load_fileInclusive(file_path, content) ==
    LET file_ext == Lower(Suffix(file_path))
        docs == Documents(file_path, content)
    IN  IF file_ext \in SKIP_EXTENSIONS THEN <<>>
        ELSE IF file_ext \notin DOMAIN SUPPORTED_EXTENSIONS THEN <<>>
        ELSE IF file_ext = ".pdf" THEN
            IF content.size < PDF_MIN_SIZE THEN <<>>
            ELSE IF ~content.readable THEN <<>>
            ELSE IF docs = <<>>
                    \/ \A i \in 1..Len(docs) :
                          Stripped(docs[i].page_content) < PDF_MIN_PAGE_TEXT
                 THEN <<>>
            ELSE docs
        ELSE IF ~content.readable THEN <<>>
        ELSE IF Stripped(content.pages[1]) <= TEXT_MIN_CONTENT THEN <<>>
        ELSE docs

load_file(file_path, content) ==
    LET file_ext == Lower(Suffix(file_path))
        docs == Documents(file_path, content)
    IN  IF file_ext \in SKIP_EXTENSIONS THEN <<>>
        ELSE IF file_ext \notin DOMAIN SUPPORTED_EXTENSIONS THEN <<>>
        ELSE IF file_ext = ".pdf" THEN
            IF content.size < PDF_MIN_SIZE THEN <<>>
            ELSE IF ~content.readable THEN <<>>
            ELSE IF docs = <<>>
                    \/ \A i \in 1..Len(docs) :
                          Stripped(docs[i].page_content) < PDF_MIN_PAGE_TEXT
                 THEN <<>>
            ELSE docs
        ELSE IF file_ext \in TEXT_DOC_EXTENSIONS THEN
            IF ~content.readable THEN <<>>
            ELSE IF Stripped(content.pages[1]) < TEXT_MIN_CONTENT THEN <<>>
            ELSE docs
        ELSE IF file_ext \in CODE_EXTENSIONS THEN
            IF ~content.readable THEN <<>>
            ELSE IF Stripped(content.pages[1]) < TEXT_MIN_CONTENT THEN <<>>
            ELSE docs
        ELSE <<>>

(***************************************************************************)
(* RecursiveCharacterTextSplitter(chunk_size, chunk_overlap), on a text     *)
(* with no separator inside: surrounding whitespace is stripped, a text    *)
(* that fits is one chunk, a longer one is cut every chunk_size -          *)
(* chunk_overlap characters.  A chunk's content is the span [lo, hi) of    *)
(* the stripped page.                                                      *)
(***************************************************************************)
RECURSIVE Spans(_, _, _, _)
Spans(lo, total, chunk_size, chunk_overlap) ==
    IF total = 0 THEN <<>>
    ELSE IF lo + chunk_size >= total THEN <<[lo |-> lo, hi |-> total]>>
    ELSE <<[lo |-> lo, hi |-> lo + chunk_size]>>
            \o Spans(lo + chunk_size - chunk_overlap, total, chunk_size,
                     chunk_overlap)

SplitDocument(doc) ==
    LET spans == Spans(0, Stripped(doc.page_content),
                       TEXT_SPLITTER_CHUNK_SIZE, TEXT_SPLITTER_CHUNK_OVERLAP)
    IN  [k \in 1..Len(spans) |->
            [page_content |-> [text |-> doc.page_content,
                               lo |-> spans[k].lo, hi |-> spans[k].hi],
             metadata |-> doc.metadata]]

RECURSIVE split_documents(_)
split_documents(documents) ==
    IF documents = <<>> THEN <<>>
    ELSE SplitDocument(Head(documents)) \o split_documents(Tail(documents))

\* len(doc.page_content)
ContentLen(page_content) == page_content.hi - page_content.lo

RECURSIVE SeqToBag(_)
SeqToBag(seq) ==
    IF seq = <<>> THEN EmptyBag
    ELSE SetToBag({Head(seq)}) (+) SeqToBag(Tail(seq))

(***************************************************************************)
(* add_knowledge.  Its result is the returned (success, message) together  *)
(* with the collection and the ledger it leaves behind; escaped is whether *)
(* an exception left the call instead.                                     *)
(***************************************************************************)
Returned(success, message, coll, ledger) ==
    [success |-> success, message |-> message, collection |-> coll,
     ingested_files |-> ledger, escaped |-> FALSE]

\* mutant: no except clause, the exception leaves add_knowledge
ExceptReraise(e, coll, ledger) ==
    [Returned(FALSE, MsgError(e), coll, ledger) EXCEPT !.escaped = TRUE]

\* except Exception as e: return False, f"Error: {str(e)[:100]}"
Except(e, coll, ledger) == Returned(FALSE, MsgError(e), coll, ledger)

\* mutant: chunk_size is the configured size, not the length of the chunk
StampConfiguredSize(doc, file_path, file_ext) ==
    [page_content |-> doc.page_content,
     metadata |-> doc.metadata @@
        [source_file |-> Name(file_path),
         source_path |-> file_path,
         file_type |-> SUPPORTED_EXTENSIONS[file_ext],
         chunk_size |-> TEXT_SPLITTER_CHUNK_SIZE]]

\* doc.metadata[...] = ... for the four provenance fields
Stamp(doc, file_path, file_ext) ==
    [page_content |-> doc.page_content,
     metadata |-> doc.metadata @@
        [source_file |-> Name(file_path),
         source_path |-> file_path,
         file_type |-> SUPPORTED_EXTENSIONS[file_ext],
         chunk_size |-> ContentLen(doc.page_content)]]

\* mutant: the chunk count is added to the entry already there
LedgerEntryAccumulating(file_path, file_ext, texts, content) ==
    [path |-> file_path,
     type |-> SUPPORTED_EXTENSIONS[file_ext],
     chunks |-> IF Name(file_path) \in DOMAIN ingested_files
                THEN ingested_files[Name(file_path)].chunks + Len(texts)
                ELSE Len(texts),
     size |-> content.size]

LedgerEntry(file_path, file_ext, texts, content) ==
    [path |-> file_path,
     type |-> SUPPORTED_EXTENSIONS[file_ext],
     chunks |-> Len(texts),
     size |-> content.size]

\* mutant: an entry already in the ledger is kept
UpsertKeepFirst(ledger, key, entry) ==
    [k \in DOMAIN ledger \cup {key} |->
        IF k \in DOMAIN ledger THEN ledger[k] ELSE entry]

\* self.ingested_files[key] = entry
Upsert(ledger, key, entry) ==
    [k \in DOMAIN ledger \cup {key} |-> IF k = key THEN entry ELSE ledger[k]]

\* mutant: chunks the store already holds are not stored again
add_documentsOnce(coll, texts) ==
    coll (+) SetToBag({texts[i] : i \in {j \in 1..Len(texts) :
                                           ~BagIn(texts[j], coll)}})

\* self.vectorstore.add_documents(texts)
add_documents(coll, texts) == coll (+) SeqToBag(texts)

add_knowledge(file_path, fault) ==
    LET file_ext == Lower(Suffix(file_path))
        content == fs[Resolve(file_path)]
        documents == load_file(file_path, content)
        split == split_documents(documents)
        texts == [i \in 1..Len(split) |-> Stamp(split[i], file_path, file_ext)]
        stored == add_documents(collection, texts)
        entry == LedgerEntry(file_path, file_ext, texts, content)
    IN  IF ~Exists(file_path)
        THEN Returned(FALSE, MsgFileNotFound(file_path), collection, ingested_files)
        ELSE IF file_ext \notin DOMAIN SUPPORTED_EXTENSIONS
        THEN Returned(FALSE, MsgUnsupported(file_ext), collection, ingested_files)
        ELSE IF file_ext \in SKIP_EXTENSIONS
        THEN Returned(FALSE, MsgBinarySkipped(file_ext), collection, ingested_files)
        ELSE IF documents = <<>>
        THEN Returned(FALSE, MsgNoContent(Name(file_path)), collection, ingested_files)
        ELSE IF fault = "split"
        THEN Except(Raised(fault), collection, ingested_files)
        ELSE IF texts = <<>>
        THEN Returned(FALSE, MsgNoChunks(Name(file_path)), collection, ingested_files)
        ELSE IF vectorstore = "None"
        THEN Returned(FALSE, MsgNoVectorStore, collection, ingested_files)
        ELSE IF fault = "write"
        THEN Except(Raised(fault), collection, ingested_files)
        ELSE IF fault = "stat"
        THEN Except(Raised(fault), stored, ingested_files)
        ELSE Returned(TRUE,
                      MsgAdded(Len(texts), Name(file_path),
                               SUPPORTED_EXTENSIONS[file_ext]),
                      stored,
                      Upsert(ingested_files, Name(file_path), entry))

(***************************************************************************)
(* ingest_directory: the enumeration (lines 302-325) and the loop.         *)
(***************************************************************************)
IsUnder(p, dir_path) ==
    Parent(p) = dir_path \/ (Parent(p) # "" /\ Parent(Parent(p)) = dir_path)

\* dir_path.glob("**/*") or dir_path.glob("*")
Glob(dir_path, recursive) ==
    SelectSeq(GlobOrder,
              LAMBDA p : IF recursive THEN IsUnder(p, dir_path)
                         ELSE Parent(p) = dir_path)

\* mutant: the enumeration tests the supported table only
EligibleSupportedOnly(file_path) ==
    /\ IsFile(file_path)
    /\ Lower(Suffix(file_path)) \in DOMAIN SUPPORTED_EXTENSIONS

Eligible(file_path) ==
    /\ IsFile(file_path)
    /\ Lower(Suffix(file_path)) \notin SKIP_EXTENSIONS
    /\ Lower(Suffix(file_path)) \in DOMAIN SUPPORTED_EXTENSIONS

\* mutant: every file of the enumeration is a candidate
AllFilesUnfiltered(dir_path, recursive) ==
    SelectSeq(Glob(dir_path, recursive), IsFile)

AllFiles(dir_path, recursive) == SelectSeq(Glob(dir_path, recursive), Eligible)

SkippedCount(dir_path, recursive) ==
    Len(SelectSeq(Glob(dir_path, recursive),
                  LAMBDA p : IsFile(p) /\ ~Eligible(p)))

\* mutant: the path as spelled, not resolved
FileIdUnresolved(file_path) == file_path

\* file_id = str(file_path.resolve())
FileId(file_path) == Resolve(file_path)

\* mutant: every failure message is kept
IsRealErrorAlways(message) == TRUE

\* the filter of lines 351-353 on what goes to errors
IsRealError(message) ==
    /\ ~Contains(message, "No content extracted")
    /\ ~Contains(message, "Binary file skipped")

ErrorEntry(file_path, message) == <<Name(file_path), ": ">> \o message

\* mutant: only existence is tested
RootMissingExistsOnly(directory_path) == ~Exists(directory_path)

\* not dir_path.exists() or not dir_path.is_dir()
RootMissing(directory_path) == ~Exists(directory_path) \/ ~IsDir(directory_path)

Report(success_count, fail_count, errors) ==
    [success_count |-> success_count, fail_count |-> fail_count,
     errors |-> errors]

\* return 0, 1, [f"Directory not found: {directory_path}"]
NotFoundReport(directory_path) ==
    Report(0, 1, <<MsgDirNotFound(directory_path)>>)

\* mutant: the empty directory is reported as a failure
EmptyReportAsFailure == Report(0, 1, <<MsgNoSupportedFiles>>)

\* return 0, 0, ["No supported files found in directory"]
EmptyReport == Report(0, 0, <<MsgNoSupportedFiles>>)

NewBatch(directory_path, recursive, all_files, skipped_count) ==
    [directory_path |-> directory_path, recursive |-> recursive,
     all_files |-> all_files, idx |-> 1,
     success_count |-> 0, fail_count |-> 0, skipped_count |-> skipped_count,
     errors |-> <<>>, processed_files |-> {},
     calls |-> <<>>, faulted |-> FALSE]

\* mutant: the flag is whether the error list is empty
ingest_knowledge_baseByErrors(r) ==
    [success |-> r.errors = <<>>,
     success_count |-> r.success_count,
     fail_count |-> r.fail_count,
     errors |-> r.errors]

\* EmbeddedSystemsAgent.ingest_knowledge_base: the dict built from the tuple
ingest_knowledge_base(r) ==
    [success |-> r.fail_count = 0,
     success_count |-> r.success_count,
     fail_count |-> r.fail_count,
     errors |-> r.errors]

(***************************************************************************)
(* scan_directory.  Sizes are kept exactly, as counts of 1/1048576 MB: the *)
(* st_size of a file is that many units.                                   *)
(***************************************************************************)
\* a file line 393 does not skip
ScanCounted(file_path) ==
    /\ IsFile(file_path)
    /\ Lower(Suffix(file_path)) \in DOMAIN SUPPORTED_EXTENSIONS
    /\ Lower(Suffix(file_path)) # ".sb3"

ScanFiles(dir_path, recursive) ==
    SelectSeq(Glob(dir_path, recursive), ScanCounted)

\* file_type = self.SUPPORTED_EXTENSIONS[file_ext]
FileType(file_path) == SUPPORTED_EXTENSIONS[Lower(Suffix(file_path))]

\* the sum of file_path.stat().st_size / (1024 * 1024) over files
RECURSIVE SizeMb(_)
SizeMb(files) ==
    IF files = <<>> THEN 0
    ELSE fs[Resolve(Head(files))].size + SizeMb(Tail(files))

scan_directory(directory_path, recursive) ==
    LET files == ScanFiles(directory_path, recursive)
        types == {FileType(files[i]) : i \in 1..Len(files)}
        OfType(t) == SelectSeq(files, LAMBDA p : FileType(p) = t)
    IN  IF ~Exists(directory_path)
        THEN [error |-> MsgDirNotFound(directory_path)]
        ELSE [directory |-> directory_path,
              files_by_type |->
                 [t \in types |-> [count |-> Len(OfType(t)),
                                   size_mb |-> SizeMb(OfType(t))]],
              total_files |-> Len(files),
              total_size_mb |-> SizeMb(files),
              tree |-> <<>>]

(***************************************************************************)
(* search_knowledge.  A distance is kept as a count of 1/100000, and a     *)
(* relevance_score, the text of a percentage with two decimals, as the     *)
(* count of hundredths of a percent it spells.                             *)
(***************************************************************************)
\* k: int = 3
DEFAULT_K == 3

\* the distance 1.0
ScoreOne == 100000

\* n / 10 rounded to the nearest integer, a tie to the even one
RoundTenth(n) ==
    LET q == n \div 10
        r == n % 10
    IN  IF r < 5 THEN q
        ELSE IF r > 5 THEN q + 1
        ELSE IF q % 2 = 0 THEN q ELSE q + 1

\* mutant: the percentage is clamped to 0..100
RelevanceScoreClamped(score) ==
    IF score > ScoreOne THEN 0
    ELSE IF score < 0 THEN RoundTenth(ScoreOne)
    ELSE RoundTenth(ScoreOne - score)

\* f"{(1 - score):.2%}"
RelevanceScore(score) == RoundTenth(ScoreOne - score)

\* dict.get(key, default)
Get(metadata, key, default) ==
    IF key \in DOMAIN metadata THEN metadata[key] ELSE default

\* the dict of lines 258-265
Result(doc, score) ==
    [content |-> doc.page_content,
     source_file |-> Get(doc.metadata, "source_file", "Unknown"),
     file_type |-> Get(doc.metadata, "file_type", "Unknown"),
     source_path |-> Get(doc.metadata, "source_path", "N/A"),
     relevance_score |-> RelevanceScore(score),
     chunk_size |-> Get(doc.metadata, "chunk_size", "N/A")]

\* mutant: the results are built last hit first
ResultsReversed(docs) ==
    [i \in 1..Len(docs) |->
        Result(docs[Len(docs) + 1 - i].doc, docs[Len(docs) + 1 - i].score)]

\* the loop of lines 257-266
Results(docs) == [i \in 1..Len(docs) |-> Result(docs[i].doc, docs[i].score)]

Searched(results) == [results |-> results, escaped |-> FALSE]

\* return [{"content": "Knowledge base not available", "source": "N/A"}]
SentinelUnavailable ==
    [content |-> <<"Knowledge base not available">>, source |-> "N/A"]

\* mutant: no except clause, the exception leaves search_knowledge
SearchExceptReraise(e) == [results |-> <<>>, escaped |-> TRUE]

\* except Exception as e: return [{"content": f"Knowledge search error: ..."}]
SearchExcept(e) ==
    Searched(<<[content |-> <<"Knowledge search error: ", e>>,
                source |-> "N/A"]>>)

\* answer is what similarity_search_with_score(query, k=k) does: it raises
\* an exception, or returns docs, a list of (doc, score)
search_knowledge(k, answer) ==
    IF vectorstore = "None" THEN Searched(<<SentinelUnavailable>>)
    ELSE IF answer.raised THEN SearchExcept(answer.error)
    ELSE Searched(Results(answer.docs))

\* The vector store's side of a query.
Distances == {-12, 0, 3, 50000, 100000, 100003, 100012}

QueryRaised == "index query failure"

NoAnswer == [raised |-> FALSE, error |-> "", docs |-> <<>>]

QueryFailure == [raised |-> TRUE, error |-> QueryRaised, docs |-> <<>>]

\* what the store may return for k: up to k of the chunks it holds, each
\* with a distance, in any order
Answers(k) ==
    LET hits == {[doc |-> c, score |-> d] :
                    c \in BagToSet(collection), d \in Distances}
        held == BagCardinality(collection)
        longest == IF k < held THEN k ELSE held
        lists == UNION {[1..n -> hits] : n \in 0..longest}
    IN  {[raised |-> FALSE, error |-> "", docs |-> docs] :
            docs \in {l \in lists :
                        \A c \in BagToSet(collection) :
                           Cardinality({i \in 1..Len(l) : l[i].doc = c})
                              <= CopiesIn(c, collection)}}

(***************************************************************************)
(* The state machine.  Calls are serialised: a caller starts one only      *)
(* when no other is running, and files are rewritten between calls.  The   *)
(* locals and the result of a call last until the next call or edit.       *)
(***************************************************************************)
NoScan == [directory_path |-> "", recursive |-> TRUE, stats |-> <<>>]

NoSearch == [k |-> 0, answer |-> NoAnswer, results |-> <<>>, escaped |-> FALSE]

NoCall ==
    [file_path |-> "", success |-> FALSE, message |-> <<>>, escaped |-> FALSE]

Call(file_path, out) ==
    [file_path |-> file_path, success |-> out.success,
     message |-> out.message, escaped |-> out.escaped]

NoBatch == NewBatch("", TRUE, <<>>, 0)

NoReport == Report(0, 0, <<>>)

\* nothing printed yet
NoLine == ""

\* no construction has run auto-ingest yet
NoStartup ==
    [knowledge_base |-> "", scan_results |-> [total_files |-> 0],
     ingested_count |-> 0, decision |-> "", batches |-> <<>>, starts |-> 0,
     stored |-> 0]

\* the threads that may call into the one engine, none of them inside a call
Threads == {1, 2}

\* no call of add_knowledge is between its index write and its ledger write
NoPending ==
    [file_path |-> "", success |-> FALSE, message |-> <<>>, escaped |-> FALSE,
     entry |-> [path |-> "", type |-> "", chunks |-> 0, size |-> 0]]

NoThread ==
    [pc |-> "idle", batch |-> NoBatch, out |-> NoPending, report |-> NoReport]

NoThreads == [t \in Threads |-> NoThread]

\* history: what the ledger entries were made from
Snapshot(file_path, out) ==
    IF out.success
    THEN Upsert(snapshot, Name(file_path), fs[Resolve(file_path)])
    ELSE snapshot

\* whether the step `fault` names is reached and raises
Fires(fault, out) == fault # "none" /\ Contains(out.message, "Error: ")

MayRaise(fault, out) ==
    \/ fault = "none"
    \/ nfaults < MaxFaults /\ Fires(fault, out)

\* EmbeddedSystemsTools.__init__: the vector store came up, or did not
Init ==
    /\ fs = [f \in Files |-> InitialContent(f)]
    /\ vectorstore \in {"Chroma", "None"}
    /\ collection = EmptyBag
    /\ ingested_files = [k \in {} |-> k]
    /\ pc = "idle"
    /\ batch = NoBatch
    /\ report = NoReport
    /\ last = NoCall
    /\ snapshot = [k \in {} |-> k]
    /\ nops = 0
    /\ nfaults = 0
    /\ scanned = NoScan
    /\ searched = NoSearch
    /\ printed = NoLine
    /\ startup = NoStartup
    /\ threads = NoThreads

Quiescent == pc \in {"idle", "done", "raised"}

\* The environment rewrites a file between calls.
EditFile(f, content) ==
    /\ Quiescent
    /\ nops < MaxOps
    /\ content \in Alternatives(f) \ {fs[f]}
    /\ fs' = [fs EXCEPT ![f] = content]
    /\ nops' = nops + 1
    /\ pc' = "idle"
    /\ batch' = NoBatch
    /\ report' = NoReport
    /\ last' = NoCall
    /\ scanned' = NoScan
    /\ searched' = NoSearch
    /\ UNCHANGED <<vectorstore, collection, ingested_files, snapshot, nfaults>>
    /\ UNCHANGED <<printed, startup, threads>>

\* await add_knowledge(file_path), up to what the caller does with the result
AwaitAddKnowledge(file_path, fault) ==
    /\ Quiescent
    /\ nops < MaxOps
    /\ LET out == add_knowledge(file_path, fault)
       IN  /\ MayRaise(fault, out)
           /\ collection' = out.collection
           /\ ingested_files' = out.ingested_files
           /\ last' = Call(file_path, out)
           /\ snapshot' = Snapshot(file_path, out)
           /\ nfaults' = IF Fires(fault, out) THEN nfaults + 1 ELSE nfaults
    /\ nops' = nops + 1
    /\ pc' = "idle"
    /\ batch' = NoBatch
    /\ report' = NoReport
    /\ scanned' = NoScan
    /\ searched' = NoSearch
    /\ UNCHANGED <<fs, vectorstore, startup, threads>>

\* A caller (UI, batch script) awaits add_knowledge(file_path).
AddKnowledge(file_path, fault) ==
    /\ AwaitAddKnowledge(file_path, fault)
    /\ UNCHANGED printed

\* ingest_directory up to its loop: lines 291-331
IngestStart(directory_path, recursive) ==
    /\ Quiescent
    /\ nops < MaxOps
    /\ nops' = nops + 1
    /\ last' = NoCall
    /\ scanned' = NoScan
    /\ searched' = NoSearch
    /\ LET all_files == AllFiles(directory_path, recursive)
           skipped_count == SkippedCount(directory_path, recursive)
       IN  IF RootMissing(directory_path)
           THEN /\ batch' = NewBatch(directory_path, recursive, <<>>, 0)
                /\ report' = NotFoundReport(directory_path)
                /\ pc' = "done"
           ELSE IF Len(all_files) = 0
           THEN /\ batch' = NewBatch(directory_path, recursive, all_files,
                                     skipped_count)
                /\ report' = EmptyReport
                /\ pc' = "done"
           ELSE /\ batch' = NewBatch(directory_path, recursive, all_files,
                                     skipped_count)
                /\ report' = NoReport
                /\ pc' = "loop"
    /\ UNCHANGED <<fs, vectorstore, collection, ingested_files, snapshot,
                   nfaults>>
    /\ UNCHANGED <<printed, startup, threads>>

\* One iteration of the loop of lines 333-353, and the return of line 356
\* after the last one.
IngestStep(fault) ==
    /\ pc = "loop"
    /\ LET total_files == Len(batch.all_files)
           file_path == batch.all_files[batch.idx]
           file_id == FileId(file_path)
           seen == file_id \in batch.processed_files
           out == add_knowledge(file_path, fault)
           after ==
               IF seen
               THEN [batch EXCEPT !.idx = @ + 1]
               ELSE [batch EXCEPT
                       !.idx = @ + 1,
                       !.processed_files = @ \cup {file_id},
                       !.calls = Append(@, Call(file_path, out)),
                       !.faulted = @ \/ Fires(fault, out),
                       !.success_count = IF out.success THEN @ + 1 ELSE @,
                       !.fail_count = IF out.success THEN @ ELSE @ + 1,
                       !.errors = IF ~out.success /\ IsRealError(out.message)
                                  THEN Append(@, ErrorEntry(file_path,
                                                            out.message))
                                  ELSE @]
       IN  /\ IF seen
              THEN /\ fault = "none"
                   /\ UNCHANGED <<collection, ingested_files, last, snapshot,
                                  nfaults>>
              ELSE /\ MayRaise(fault, out)
                   /\ collection' = out.collection
                   /\ ingested_files' = out.ingested_files
                   /\ last' = Call(file_path, out)
                   /\ snapshot' = Snapshot(file_path, out)
                   /\ nfaults' = IF Fires(fault, out) THEN nfaults + 1
                                 ELSE nfaults
           /\ IF ~seen /\ out.escaped
              THEN /\ batch' = [batch EXCEPT
                                  !.processed_files = @ \cup {file_id},
                                  !.calls = Append(@, Call(file_path, out))]
                   /\ pc' = "raised"
                   /\ report' = NoReport
              ELSE /\ batch' = after
                   /\ IF batch.idx = total_files
                      THEN /\ pc' = "done"
                           /\ report' = Report(after.success_count,
                                               after.fail_count, after.errors)
                      ELSE /\ pc' = "loop"
                           /\ report' = NoReport
    /\ UNCHANGED <<fs, vectorstore, nops, scanned, searched>>
    /\ UNCHANGED <<printed, startup, threads>>

\* The arguments the callers of the model pass.
Roots == {"kb", "kb/sub", "pics", "missing", "kb/a.txt"}

SinglePaths ==
    {"kb/a.txt", "kb/sub/a.txt", "kb/img.png", "kb/notes.xyz", "kb/pack.idx",
     "kb/gone.txt"}

Next ==
    \/ \E f \in Files : \E content \in Alternatives(f) : EditFile(f, content)
    \/ \E file_path \in SinglePaths : \E fault \in Faults :
          AddKnowledge(file_path, fault)
    \/ \E directory_path \in Roots : \E recursive \in BOOLEAN :
          IngestStart(directory_path, recursive)
    \/ \E fault \in Faults : IngestStep(fault)

Spec == Init /\ [][Next]_vars

(***************************************************************************)
(* The read-only calls, between ingestions.  They change nothing a later   *)
(* call reads, so a read-only call right after another reaches no state    *)
(* the second alone does not: the model takes them one at a time.          *)
(***************************************************************************)
\* A caller awaits scan_directory(directory_path, recursive).
ScanDirectory(directory_path, recursive) ==
    /\ Quiescent
    /\ scanned = NoScan /\ searched = NoSearch
    /\ scanned' = [directory_path |-> directory_path, recursive |-> recursive,
                   stats |-> scan_directory(directory_path, recursive)]
    /\ searched' = NoSearch
    /\ pc' = "idle"
    /\ batch' = NoBatch
    /\ report' = NoReport
    /\ last' = NoCall
    /\ UNCHANGED <<fs, vectorstore, collection, ingested_files, snapshot, nops,
                   nfaults>>
    /\ UNCHANGED <<printed, startup, threads>>

\* A caller awaits search_knowledge(query, k); the store answers.
SearchKnowledge(k) ==
    /\ Quiescent
    /\ scanned = NoScan /\ searched = NoSearch
    /\ \E answer \in IF vectorstore = "None" THEN {NoAnswer}
                       ELSE Answers(k) \cup {QueryFailure} :
          LET out == search_knowledge(k, answer)
          IN  /\ searched' = [k |-> k, answer |-> answer,
                              results |-> out.results, escaped |-> out.escaped]
              /\ pc' = IF out.escaped THEN "raised" ELSE "idle"
    /\ scanned' = NoScan
    /\ batch' = NoBatch
    /\ report' = NoReport
    /\ last' = NoCall
    /\ UNCHANGED <<fs, vectorstore, collection, ingested_files, snapshot, nops,
                   nfaults>>
    /\ UNCHANGED <<printed, startup, threads>>

QueryPaths == {"kb/a.txt", "kb/link.txt"}

QueryNext ==
    \/ \E file_path \in QueryPaths : AddKnowledge(file_path, "none")
    \/ \E directory_path \in Roots : \E recursive \in BOOLEAN :
          ScanDirectory(directory_path, recursive)
    \/ \E k \in 1..DEFAULT_K : SearchKnowledge(k)

QuerySpec == Init /\ [][QueryNext]_vars

(***************************************************************************)
(* The extractor and the splitter on files at their thresholds: the        *)
(* engine is started on a tree whose text file, source file and PDF hold   *)
(* any of the probe contents, and files are ingested one at a time.        *)
(***************************************************************************)
TextProbes ==
    {Content(9, TRUE, <<Page(9, 0)>>),
     Content(10, TRUE, <<Page(10, 0)>>),
     Content(11, TRUE, <<Page(11, 0)>>),
     Content(12, TRUE, <<Page(12, 3)>>),
     Content(13, TRUE, <<Page(13, 3)>>),
     Content(1000, TRUE, <<Page(1000, 0)>>),
     Content(1001, TRUE, <<Page(1001, 0)>>),
     Content(2500, TRUE, <<Page(2500, 40)>>),
     TxtLocked}

CodeProbes ==
    {Content(9, TRUE, <<Page(9, 0)>>),
     Content(10, TRUE, <<Page(10, 0)>>),
     TxtLocked}

PdfProbes ==
    {Content(99, TRUE, <<Page(60, 0)>>),
     Content(100, TRUE, <<Page(60, 0)>>),
     Content(100, FALSE, <<>>),
     Content(5000, TRUE, <<>>),
     Content(5000, TRUE, <<Page(49, 0)>>),
     Content(5000, TRUE, <<Page(50, 0)>>),
     Content(5000, TRUE, <<Page(53, 4), Page(50, 0)>>),
     PdfMalformed}

ExtractPaths == {"kb/a.txt", "kb/sub/MAIN.PY", "kb/doc.pdf"}

ExtractInit ==
    /\ \E txt \in TextProbes : \E code \in CodeProbes : \E pdf \in PdfProbes :
          fs = [f \in Files |->
                  CASE f = "kb/a.txt" -> txt
                    [] f = "kb/sub/MAIN.PY" -> code
                    [] f = "kb/doc.pdf" -> pdf
                    [] OTHER -> InitialContent(f)]
    /\ vectorstore \in {"Chroma", "None"}
    /\ collection = EmptyBag
    /\ ingested_files = [k \in {} |-> k]
    /\ pc = "idle"
    /\ batch = NoBatch
    /\ report = NoReport
    /\ last = NoCall
    /\ snapshot = [k \in {} |-> k]
    /\ nops = 0
    /\ nfaults = 0
    /\ scanned = NoScan
    /\ searched = NoSearch
    /\ printed = NoLine
    /\ startup = NoStartup
    /\ threads = NoThreads

ExtractNext == \E file_path \in ExtractPaths : AddKnowledge(file_path, "none")

ExtractSpec == ExtractInit /\ [][ExtractNext]_vars

(***************************************************************************)
(* The CLI's knowledge command: the user enters a path, the CLI awaits the *)
(* agent's add_knowledge and prints one line on what came back.            *)
(***************************************************************************)
\* EmbeddedSystemsAgent.add_knowledge: the dict built from the tuple
agent_add_knowledge(out) == [success |-> out.success, message |-> out.message]

\* bool(d) of a dict: whether it has a key
Truthy(d) == DOMAIN d # {}

LineAdded == "File added to knowledge base"

LineFailed == "Failed to add file"

\* if success: print(...) else: print(...)
PrintOutcome(success) == IF Truthy(success) THEN LineAdded ELSE LineFailed

\* _handle_knowledge, choices 1 and 2, on a non-empty path
HandleKnowledge(file_path, fault) ==
    /\ file_path # ""
    /\ AwaitAddKnowledge(file_path, fault)
    /\ LET out == add_knowledge(file_path, fault)
           success == agent_add_knowledge(out)
       IN  printed' = IF out.escaped THEN printed ELSE PrintOutcome(success)

CliNext ==
    \/ \E f \in Files : \E content \in Alternatives(f) : EditFile(f, content)
    \/ \E file_path \in SinglePaths : \E fault \in Faults :
          HandleKnowledge(file_path, fault)

CliSpec == Init /\ [][CliNext]_vars

(***************************************************************************)
(* _auto_ingest_on_startup: what the constructor decides from the scan of  *)
(* the knowledge base and the size of the ledger.  batches are the         *)
(* ingest_directory calls it makes.                                        *)
(***************************************************************************)
MaxTotal == 41

\* tolerance = int(total_files * 0.05)
Tolerance(total_files) == (total_files * 5) \div 100

Decision(decision, batches) == [decision |-> decision, batches |-> batches]

\* mutant: the ledger has to exceed the tolerated total
auto_ingest_on_startupStrict(knowledge_base, scan_results, ingested_count) ==
    IF "error" \in DOMAIN scan_results THEN Decision("error", <<>>)
    ELSE LET total_files == scan_results.total_files
         IN  IF total_files = 0 THEN Decision("empty", <<>>)
             ELSE IF ingested_count > total_files - Tolerance(total_files)
             THEN Decision("skip", <<>>)
             ELSE Decision("ingest", <<[directory_path |-> knowledge_base,
                                        recursive |-> TRUE]>>)

auto_ingest_on_startup(knowledge_base, scan_results, ingested_count) ==
    IF "error" \in DOMAIN scan_results THEN Decision("error", <<>>)
    ELSE LET total_files == scan_results.total_files
         IN  IF total_files = 0 THEN Decision("empty", <<>>)
             ELSE IF ingested_count >= total_files - Tolerance(total_files)
             THEN Decision("skip", <<>>)
             ELSE Decision("ingest", <<[directory_path |-> knowledge_base,
                                        recursive |-> TRUE]>>)

\* the dicts scan_knowledge_base may hand to the decision
ScanProbes ==
    {[error |-> MsgDirNotFound("missing")]}
       \cup {[total_files |-> t] : t \in 0..MaxTotal}

DecisionInit ==
    /\ fs = [f \in Files |-> InitialContent(f)]
    /\ vectorstore \in {"Chroma", "None"}
    /\ collection = EmptyBag
    /\ ingested_files = [k \in {} |-> k]
    /\ pc = "idle"
    /\ batch = NoBatch
    /\ report = NoReport
    /\ last = NoCall
    /\ snapshot = [k \in {} |-> k]
    /\ nops = 0
    /\ nfaults = 0
    /\ scanned = NoScan
    /\ searched = NoSearch
    /\ printed = NoLine
    /\ \E scan_results \in ScanProbes : \E ingested_count \in 0..MaxTotal :
          startup = [NoStartup EXCEPT !.knowledge_base = "kb",
                                      !.scan_results = scan_results,
                                      !.ingested_count = ingested_count]
    /\ threads = NoThreads

\* the decision is taken on the inputs drawn
Decide ==
    /\ startup.decision = ""
    /\ LET d == auto_ingest_on_startup(startup.knowledge_base,
                                       startup.scan_results,
                                       startup.ingested_count)
       IN  startup' = [startup EXCEPT !.decision = d.decision,
                                      !.batches = d.batches]
    /\ UNCHANGED <<fs, vectorstore, collection, ingested_files, pc, batch,
                   report, last, snapshot, nops, nfaults, scanned, searched,
                   printed, threads>>

DecisionSpec == DecisionInit /\ [][Decide]_vars

(***************************************************************************)
(* Process starts.  Each start constructs an agent with auto_ingest=True   *)
(* (the Streamlit app): a new EmbeddedSystemsTools with an empty ledger    *)
(* over the Chroma directory the earlier processes wrote, then             *)
(* _auto_ingest_on_startup.  The files do not change between starts.       *)
(***************************************************************************)
KnowledgeBases == {"kb", "kb/sub", "pics"}

\* mutant: the ledger of the earlier process is still there
NewLedgerKept(previous) == previous

\* self.ingested_files: Dict[str, Dict] = {}
NewLedger(previous) == [k \in {} |-> k]

StartInit ==
    /\ \E txt \in Alternatives("kb/a.txt") :
       \E sub \in Alternatives("kb/sub/a.txt") :
       \E pdf \in Alternatives("kb/doc.pdf") :
          fs = [f \in Files |->
                  CASE f = "kb/a.txt" -> txt
                    [] f = "kb/sub/a.txt" -> sub
                    [] f = "kb/doc.pdf" -> pdf
                    [] OTHER -> InitialContent(f)]
    /\ vectorstore = "None"
    /\ collection = EmptyBag
    /\ ingested_files = [k \in {} |-> k]
    /\ pc = "idle"
    /\ batch = NoBatch
    /\ report = NoReport
    /\ last = NoCall
    /\ snapshot = [k \in {} |-> k]
    /\ nops = 0
    /\ nfaults = 0
    /\ scanned = NoScan
    /\ searched = NoSearch
    /\ printed = NoLine
    /\ \E knowledge_base \in KnowledgeBases :
          startup = [NoStartup EXCEPT !.knowledge_base = knowledge_base]
    /\ threads = NoThreads

\* EmbeddedSystemsAgent.__init__ with auto_ingest=True, up to the loop of
\* the batch it starts; vs is whether the vector store came up
Start(vs) ==
    /\ Quiescent
    /\ nops < MaxOps
    /\ nops' = nops + 1
    /\ vectorstore' = vs
    /\ LET knowledge_base == startup.knowledge_base
           ledger == NewLedger(ingested_files)
           scan_results == scan_directory(knowledge_base, TRUE)
           ingested_count == Cardinality(DOMAIN ledger)
           d == auto_ingest_on_startup(knowledge_base, scan_results,
                                       ingested_count)
       IN  /\ ingested_files' = ledger
           /\ snapshot' = [k \in DOMAIN ledger |-> snapshot[k]]
           /\ startup' =
                 [knowledge_base |-> knowledge_base,
                  scan_results |-> scan_results,
                  ingested_count |-> ingested_count,
                  decision |-> d.decision,
                  batches |-> d.batches,
                  starts |-> startup.starts + 1,
                  stored |-> IF vs = "Chroma" /\ d.batches # <<>>
                             THEN startup.stored + 1 ELSE startup.stored]
           /\ IF d.batches = <<>>
              THEN /\ batch' = NoBatch
                   /\ report' = NoReport
                   /\ pc' = "idle"
              ELSE LET directory_path == d.batches[1].directory_path
                       recursive == d.batches[1].recursive
                       all_files == AllFiles(directory_path, recursive)
                       skipped_count == SkippedCount(directory_path, recursive)
                   IN  IF RootMissing(directory_path)
                       THEN /\ batch' = NewBatch(directory_path, recursive,
                                                 <<>>, 0)
                            /\ report' = NotFoundReport(directory_path)
                            /\ pc' = "done"
                       ELSE IF Len(all_files) = 0
                       THEN /\ batch' = NewBatch(directory_path, recursive,
                                                 all_files, skipped_count)
                            /\ report' = EmptyReport
                            /\ pc' = "done"
                       ELSE /\ batch' = NewBatch(directory_path, recursive,
                                                 all_files, skipped_count)
                            /\ report' = NoReport
                            /\ pc' = "loop"
    /\ last' = NoCall
    /\ scanned' = NoScan
    /\ searched' = NoSearch
    /\ UNCHANGED <<fs, collection, nfaults, printed, threads>>

StartNext ==
    \/ \E vs \in {"Chroma", "None"} : Start(vs)
    \/ IngestStep("none")

StartSpec == StartInit /\ [][StartNext]_vars

(***************************************************************************)
(* ingest_directory called from two threads on the one cached engine (the  *)
(* Streamlit sessions share it), over the same directory.  Nothing in the  *)
(* engine is locked.  The files do not change, so what a call reads from   *)
(* them is fixed, and a thread is observed at the two places where it      *)
(* touches what the threads share: the write to the index (line 141) and   *)
(* the write to the ledger (lines 144-149).  pc of a thread: "idle",       *)
(* "loop" (before the next file), "record" (between the two writes),       *)
(* "done".                                                                 *)
(***************************************************************************)
ConcRoots == {"kb", "kb/sub"}

\* the chunks of a path a collection holds, counted with their copies
Held(coll, file_path) ==
    LET own == {c \in BagToSet(coll) : c.metadata.source_path = file_path}
    IN  BagCardinality([c \in own |-> coll[c]])

\* mutant: the entry counts the chunks the index holds of the path
PendingCounted(file_path, out) ==
    [file_path |-> file_path, success |-> out.success,
     message |-> out.message, escaped |-> out.escaped,
     entry |-> IF out.success
               THEN [out.ingested_files[Name(file_path)] EXCEPT
                       !.chunks = Held(out.collection, file_path)]
               ELSE NoPending.entry]

\* add_knowledge after line 141: its result and the entry it is about to
\* write
Pending(file_path, out) ==
    [file_path |-> file_path, success |-> out.success,
     message |-> out.message, escaped |-> out.escaped,
     entry |-> IF out.success THEN out.ingested_files[Name(file_path)]
               ELSE NoPending.entry]

\* lines 345-356: the counters after a call has returned, and the return
\* after the last file
Returns(b, call) ==
    LET after ==
            [b EXCEPT
               !.idx = @ + 1,
               !.calls = Append(@, call),
               !.success_count = IF call.success THEN @ + 1 ELSE @,
               !.fail_count = IF call.success THEN @ ELSE @ + 1,
               !.errors = IF ~call.success /\ IsRealError(call.message)
                          THEN Append(@, ErrorEntry(call.file_path,
                                                    call.message))
                          ELSE @]
    IN  [pc |-> IF b.idx = Len(b.all_files) THEN "done" ELSE "loop",
         batch |-> after,
         out |-> NoPending,
         report |-> IF b.idx = Len(b.all_files)
                    THEN Report(after.success_count, after.fail_count,
                                after.errors)
                    ELSE NoReport]

\* a file enumerated twice is passed over (lines 335-337)
PassedOver(b) ==
    [pc |-> IF b.idx = Len(b.all_files) THEN "done" ELSE "loop",
     batch |-> [b EXCEPT !.idx = @ + 1],
     out |-> NoPending,
     report |-> IF b.idx = Len(b.all_files)
                THEN Report(b.success_count, b.fail_count, b.errors)
                ELSE NoReport]

\* thread t enters ingest_directory: lines 291-331
ConcStart(t, directory_path, recursive) ==
    /\ pc = "idle"
    /\ nops < MaxOps
    /\ threads[t].pc \in {"idle", "done"}
    /\ \A u \in Threads :
          threads[u].pc # "idle" =>
             /\ threads[u].batch.directory_path = directory_path
             /\ threads[u].batch.recursive = recursive
    /\ nops' = nops + 1
    /\ LET all_files == AllFiles(directory_path, recursive)
           skipped_count == SkippedCount(directory_path, recursive)
       IN  threads' =
              [threads EXCEPT ![t] =
                 IF RootMissing(directory_path)
                 THEN [pc |-> "done",
                       batch |-> NewBatch(directory_path, recursive, <<>>, 0),
                       out |-> NoPending,
                       report |-> NotFoundReport(directory_path)]
                 ELSE IF Len(all_files) = 0
                 THEN [pc |-> "done",
                       batch |-> NewBatch(directory_path, recursive,
                                          all_files, skipped_count),
                       out |-> NoPending,
                       report |-> EmptyReport]
                 ELSE [pc |-> "loop",
                       batch |-> NewBatch(directory_path, recursive,
                                          all_files, skipped_count),
                       out |-> NoPending,
                       report |-> NoReport]]
    /\ UNCHANGED <<fs, vectorstore, collection, ingested_files, pc, batch,
                   report, last, snapshot, nfaults, scanned, searched,
                   printed, startup>>

\* thread t takes its next file through add_knowledge up to the index
\* write; a call that fails returns at once
ConcLoad(t) ==
    /\ threads[t].pc = "loop"
    /\ LET b == threads[t].batch
           file_path == b.all_files[b.idx]
           file_id == FileId(file_path)
           out == add_knowledge(file_path, "none")
           marked == [b EXCEPT !.processed_files = @ \cup {file_id}]
       IN  IF file_id \in b.processed_files
           THEN /\ threads' = [threads EXCEPT ![t] = PassedOver(b)]
                /\ UNCHANGED collection
           ELSE IF out.success
           THEN /\ collection' = out.collection
                /\ threads' = [threads EXCEPT ![t] =
                                  [pc |-> "record", batch |-> marked,
                                   out |-> Pending(file_path, out),
                                   report |-> NoReport]]
           ELSE /\ UNCHANGED collection
                /\ threads' = [threads EXCEPT ![t] =
                                  Returns(marked, Pending(file_path, out))]
    /\ UNCHANGED <<fs, vectorstore, ingested_files, pc, batch, report, last,
                   snapshot, nops, nfaults, scanned, searched, printed,
                   startup>>

\* thread t writes the ledger entry, returns from add_knowledge and counts
ConcRecord(t) ==
    /\ threads[t].pc = "record"
    /\ LET out == threads[t].out
       IN  /\ ingested_files' =
                 Upsert(ingested_files, Name(out.file_path), out.entry)
           /\ threads' = [threads EXCEPT ![t] = Returns(threads[t].batch, out)]
    /\ UNCHANGED <<fs, vectorstore, collection, pc, batch, report, last,
                   snapshot, nops, nfaults, scanned, searched, printed,
                   startup>>

ConcNext ==
    \/ \E t \in Threads : \E directory_path \in ConcRoots :
       \E recursive \in BOOLEAN : ConcStart(t, directory_path, recursive)
    \/ \E t \in Threads : ConcLoad(t)
    \/ \E t \in Threads : ConcRecord(t)

ConcSpec == Init /\ [][ConcNext]_vars

(***************************************************************************)
(* Properties.                                                             *)
(***************************************************************************)
\* the step is, or contains, a call of add_knowledge (its result is last')
CalledAddKnowledge ==
    /\ last' # NoCall
    /\ nops' = nops + 1 \/ Len(batch'.calls) = Len(batch.calls) + 1

\* the step is the start of an ingest_directory call
StartedBatch == nops' = nops + 1 /\ batch' # NoBatch

\* the canonical files the running / last batch enumerated, and those it
\* passed to add_knowledge
BatchCandidates ==
    {Resolve(batch.all_files[i]) : i \in 1..Len(batch.all_files)}

BatchCalled ==
    {Resolve(batch.calls[i].file_path) : i \in 1..Len(batch.calls)}

\* the file is in the ledger under this path, and is as it was when the
\* entry was made
RecordedUnchanged(file_path) ==
    /\ Name(file_path) \in DOMAIN ingested_files
    /\ ingested_files[Name(file_path)].path = file_path
    /\ snapshot[Name(file_path)] = fs[Resolve(file_path)]

\* contents with usable text; the others are empty, padding only, a stub
\* or unreadable
ValidContents == {TxtSmall, TxtBig, PdfGood}

ValidCandidates == {f \in BatchCandidates : fs[f] \in ValidContents}

(* C1: partial-failure isolation.  No exception leaves add_knowledge or   *)
(* ingest_directory; while the batch runs every candidate before the      *)
(* current index has been handed to the single-file path whatever the     *)
(* earlier outcomes were, and when it returns every candidate has.        *)
C1_PartialFailureIsolation ==
    /\ pc # "raised"
    /\ ~last.escaped
    /\ (pc = "loop") =>
          \A i \in 1..(batch.idx - 1) :
              Resolve(batch.all_files[i]) \in BatchCalled
    /\ (pc = "done" /\ batch.all_files # <<>>) =>
          BatchCalled = BatchCandidates

\* a returned batch in which a file raised and a later file was ingested
C1_Witness ==
    /\ pc = "done"
    /\ \E i, j \in 1..Len(batch.calls) :
          /\ i < j
          /\ ~batch.calls[i].success
          /\ Contains(batch.calls[i].message, "Error: ")
          /\ batch.calls[j].success

(* C2: batch accounting.  A returned batch has success_count + fail_count *)
(* = the number of distinct candidates; with the index available and no   *)
(* step raising, success_count is the number of candidates with valid     *)
(* content and fail_count the number of the others (so N-1 and 1 when      *)
(* exactly one is corrupted).                                              *)
C2_BatchAccounting ==
    (pc = "done" /\ batch.all_files # <<>>) =>
        /\ report.success_count + report.fail_count
              = Cardinality(BatchCandidates)
        /\ (vectorstore = "Chroma" /\ ~batch.faulted) =>
              /\ report.success_count = Cardinality(ValidCandidates)
              /\ report.fail_count
                    = Cardinality(BatchCandidates \ ValidCandidates)

\* four distinct candidates, exactly one of them corrupted: 3 and 1
C2_Witness ==
    /\ pc = "done"
    /\ vectorstore = "Chroma"
    /\ ~batch.faulted
    /\ Cardinality(BatchCandidates) = 4
    /\ Cardinality(BatchCandidates \ ValidCandidates) = 1
    /\ report.success_count = 3
    /\ report.fail_count = 1

(* C3: duplicate suppression across runs.  A call of add_knowledge on a   *)
(* file that is recorded in the ledger and unchanged since submits        *)
(* nothing to the index.                                                  *)
C3_NoResubmission ==
    [][(CalledAddKnowledge /\ RecordedUnchanged(last'.file_path))
          => collection' = collection]_vars

(* C4: single-file ingestion is never partially successful.  Every call   *)
(* of add_knowledge either succeeds, the index having received chunks and *)
(* the ledger holding the entry, or does not succeed and leaves both the  *)
(* index and the ledger as they were.                                     *)
C4_NeverPartial ==
    [][CalledAddKnowledge =>
          \/ /\ last'.success
             /\ collection' # collection
             /\ Name(last'.file_path) \in DOMAIN ingested_files'
          \/ /\ ~last'.success
             /\ collection' = collection
             /\ ingested_files' = ingested_files]_vars

(* C5: missing root.  ingest_directory on a root that does not exist or   *)
(* is not a directory returns (0, 1, [one entry naming the directory])    *)
(* at once: no file enumerated, no call of add_knowledge, the ledger and  *)
(* the index unchanged.                                                   *)
C5_MissingRoot ==
    [][(StartedBatch /\ batch'.directory_path \notin Dirs) =>
          /\ pc' = "done"
          /\ report'.success_count = 0
          /\ report'.fail_count = 1
          /\ report'.errors = <<MsgDirNotFound(batch'.directory_path)>>
          /\ batch'.all_files = <<>>
          /\ batch'.calls = <<>>
          /\ last' = NoCall
          /\ collection' = collection
          /\ ingested_files' = ingested_files]_vars

\* the failure report of a missing root, the ledger holding entries
C5_Witness ==
    /\ pc = "done"
    /\ batch.directory_path \notin Dirs
    /\ report.fail_count = 1
    /\ DOMAIN ingested_files # {}
    /\ collection # EmptyBag

(* C6: empty candidate set.  ingest_directory on an existing directory    *)
(* with no eligible file returns success_count = 0 and fail_count = 0     *)
(* with the fixed note, which is not the not-found error, and the result  *)
(* the agent builds from it has success = true; nothing was ingested.     *)
C6_EmptyCandidateSet ==
    (pc = "done" /\ batch.directory_path \in Dirs /\ batch.all_files = <<>>)
        =>
        /\ report.success_count = 0
        /\ report.fail_count = 0
        /\ report.errors = <<MsgNoSupportedFiles>>
        /\ MsgNoSupportedFiles # MsgDirNotFound(batch.directory_path)
        /\ ingest_knowledge_base(report).success
        /\ ingest_knowledge_base(report).fail_count = 0
        /\ batch.calls = <<>>

\* a directory holding only a skipped image
C6_Witness ==
    /\ pc = "done"
    /\ batch.directory_path = "pics"
    /\ batch.skipped_count = 1
    /\ report.errors = <<MsgNoSupportedFiles>>

(* C7: in-batch deduplication.  Within one ingest_directory call,          *)
(* add_knowledge is invoked at most once per canonical path.               *)
C7_InBatchDedup ==
    \A i, j \in 1..Len(batch.calls) :
        Resolve(batch.calls[i].file_path) = Resolve(batch.calls[j].file_path)
            => i = j

\* the link and its target were both enumerated, one call was made
C7_Witness ==
    /\ pc = "done"
    /\ \E i, j \in 1..Len(batch.all_files) :
          /\ i # j
          /\ batch.all_files[i] = "kb/a.txt"
          /\ batch.all_files[j] = "kb/link.txt"
    /\ \E i \in 1..Len(batch.calls) :
          batch.calls[i].file_path = "kb/a.txt" /\ batch.calls[i].success
    /\ \A i \in 1..Len(batch.calls) : batch.calls[i].file_path # "kb/link.txt"

(* C8: ledger idempotence.  A successful call of add_knowledge on a file  *)
(* that is recorded in the ledger and unchanged since leaves the ledger   *)
(* as it was: the same entries, the entry of the file with the same       *)
(* chunk count, type and size.                                            *)
C8_LedgerIdempotence ==
    [][(CalledAddKnowledge /\ last'.success
            /\ RecordedUnchanged(last'.file_path))
          => ingested_files' = ingested_files]_vars

\* a file ingested a second time, unchanged: its chunks are held twice
C8_Witness ==
    /\ last.success
    /\ RecordedUnchanged(last.file_path)
    /\ \E c \in BagToSet(collection) :
          /\ c.metadata.source_path = last.file_path
          /\ CopiesIn(c, collection) >= 2

RECURSIVE RealErrors(_)
RealErrors(calls) ==
    IF calls = <<>> THEN <<>>
    ELSE LET c == Head(calls)
         IN  (IF /\ ~c.success
                 /\ ~Contains(c.message, "No content extracted")
                 /\ ~Contains(c.message, "Binary file skipped")
              THEN <<(<<Name(c.file_path), ": ">> \o c.message)>>
              ELSE <<>>) \o RealErrors(Tail(calls))

C10_EmptyContentNotInErrors ==
    (pc \in {"loop", "done"}) =>
        /\ \A i \in 1..Len(batch.calls) :
              load_file(batch.calls[i].file_path,
                        fs[Resolve(batch.calls[i].file_path)]) = <<>>
                 => /\ ~batch.calls[i].success
                    /\ Contains(batch.calls[i].message, "No content extracted")
        /\ batch.errors = RealErrors(batch.calls)
        /\ pc = "done" /\ batch.calls # <<>> => report.errors = batch.errors

\* a returned batch with an empty-content file and a real error
C10_Witness ==
    /\ pc = "done"
    /\ \E i \in 1..Len(batch.calls) :
          batch.calls[i].message = MsgNoContent(Name(batch.calls[i].file_path))
    /\ Len(batch.errors) = 1
    /\ report.fail_count = 2

\* the extensions listed in both tables
BothTables == SKIP_EXTENSIONS \cap DOMAIN SUPPORTED_EXTENSIONS

InBothTables(file_path) == Lower(Suffix(file_path)) \in BothTables

(* C11: skip wins.  A file whose extension is in both tables is treated   *)
(* as binary-skip by all three paths: add_knowledge answers "Binary file  *)
(* skipped" without success, _load_file extracts nothing from it,         *)
(* ingest_directory counts it as skipped and never makes it a candidate,  *)
(* and no chunk or ledger entry ever comes from it.                       *)
C11_SkipWins ==
    /\ (last # NoCall /\ IsFile(last.file_path) /\ InBothTables(last.file_path))
          => /\ ~last.success
             /\ last.message = MsgBinarySkipped(Lower(Suffix(last.file_path)))
    /\ \A p \in Entries \ Dirs :
          InBothTables(p) => load_file(p, fs[Resolve(p)]) = <<>>
    /\ \A i \in 1..Len(batch.all_files) : ~InBothTables(batch.all_files[i])
    /\ batch.all_files # <<>> =>
          Len(SelectSeq(Glob(batch.directory_path, batch.recursive),
                        InBothTables)) <= batch.skipped_count
    /\ \A c \in BagToSet(collection) : ~InBothTables(c.metadata.source_path)
    /\ \A name \in DOMAIN ingested_files :
          ~InBothTables(ingested_files[name].path)

\* add_knowledge has refused kb/img.png while the knowledge base holds an
\* earlier file
C11_Witness ==
    /\ last.file_path = "kb/img.png"
    /\ last.message = MsgBinarySkipped(".png")
    /\ "a.txt" \in DOMAIN ingested_files
    /\ collection # EmptyBag

\* the kind a path's extension has in the enumeration of ingest_directory
\* (lines 313-323: the skip table is consulted first)
KindOf(file_path) ==
    LET file_ext == Lower(Suffix(file_path))
    IN  IF file_ext \in SKIP_EXTENSIONS THEN "BinarySkip"
        ELSE IF file_ext \notin DOMAIN SUPPORTED_EXTENSIONS THEN "Unsupported"
        ELSE SUPPORTED_EXTENSIONS[file_ext]

(* C12 as stated: the skip table and the supported table are disjoint, no *)
(* extension is a member of both; checked on the extensions of the files  *)
(* the engine runs against.                                               *)
C12_Disjoint ==
    \A f \in DOMAIN fs :
       ~ /\ Lower(Suffix(f)) \in SKIP_EXTENSIONS
         /\ Lower(Suffix(f)) \in DOMAIN SUPPORTED_EXTENSIONS

(* C12, amended: the two tables are not disjoint.  The eleven binary      *)
(* extensions are listed in both, and the three git extensions in the     *)
(* skip table only; with the skip table consulted first, a file of an     *)
(* extension in both is never a candidate of a batch, and every file the  *)
(* ledger holds has one kind, the label of a supported extension that is  *)
(* not in the skip table.                                                 *)
C12_OverlapIsBinary ==
    /\ SKIP_EXTENSIONS \cap DOMAIN SUPPORTED_EXTENSIONS =
          {".sb3", ".jpg", ".png", ".svg", ".webm", ".gz", ".tar", ".jar",
           ".fzz", ".vlw", ".ttf"}
    /\ SKIP_EXTENSIONS \ DOMAIN SUPPORTED_EXTENSIONS = {".idx", ".pack", ".rev"}
    /\ \A i \in 1..Len(batch.all_files) :
          KindOf(batch.all_files[i]) \notin {"BinarySkip", "Unsupported"}
    /\ \A name \in DOMAIN ingested_files :
          /\ KindOf(ingested_files[name].path) = ingested_files[name].type
          /\ Lower(Suffix(ingested_files[name].path)) \notin SKIP_EXTENSIONS

\* a batch over kb has finished: it skipped the .png, the .idx and the .xyz
\* file and recorded a text file
C12_Witness ==
    /\ pc = "done"
    /\ batch.directory_path = "kb"
    /\ batch.skipped_count = 3
    /\ \E name \in DOMAIN ingested_files : ingested_files[name].type = "Text File"

(* C13: classification totality.  add_knowledge never answers             *)
(* "Unsupported file type" for a file whose extension is listed in the    *)
(* supported table or in the skip table, and for an extension of the skip *)
(* table it answers "Binary file skipped".  (Violated: for .idx, .pack    *)
(* and .rev the supported table is tested first.)                         *)
C13_ClassificationTotal ==
    LET file_ext == Lower(Suffix(last.file_path))
    IN  (last # NoCall /\ IsFile(last.file_path)) =>
           /\ file_ext \in SKIP_EXTENSIONS \cup DOMAIN SUPPORTED_EXTENSIONS
                 => ~Contains(last.message, "Unsupported file type: ")
           /\ file_ext \in SKIP_EXTENSIONS
                 => last.message = MsgBinarySkipped(file_ext)

\* the answers add_knowledge gives only after _load_file has run (line 124)
AfterExtraction(message) ==
    \/ Contains(message, "No content extracted")
    \/ Contains(message, "No chunks generated")
    \/ message = MsgNoVectorStore

(* C15: index unavailable is an immediate failure.  With the vector store *)
(* None, a batch over an existing directory with candidates returns at    *)
(* once with a failed outcome: the loop is not entered, no file is        *)
(* extracted or chunked, and the ledger stays as it was.  (Violated:      *)
(* ingest_directory never tests the vector store; every candidate is      *)
(* loaded and split before add_knowledge finds the store missing.)        *)
C15_UnavailableIsImmediate ==
    (vectorstore = "None" /\ batch # NoBatch /\ batch.all_files # <<>>) =>
        /\ pc = "done"
        /\ report.fail_count > 0
        /\ \A i \in 1..Len(batch.calls) : ~AfterExtraction(batch.calls[i].message)
        /\ ingested_files = [k \in {} |-> k]

\* the paths the chunks of the index come from
StoredPaths == {c.metadata.source_path : c \in BagToSet(collection)}

(* C19: filename-keyed ledger collision.  A successful add_knowledge call *)
(* on a path keeps every chunk the index held and adds the file's own,    *)
(* and writes the ledger entry of the file's basename alone: that entry   *)
(* becomes the record of this path, whatever path it recorded before, and *)
(* the other entries stay.  So two files of one basename share an entry   *)
(* that is the record of the one ingested last.                           *)
C19_FilenameCollision ==
    [][(CalledAddKnowledge /\ last'.success) =>
          LET file_path == last'.file_path
              name == Name(file_path)
          IN  /\ collection \sqsubseteq collection'
              /\ \E c \in BagToSet(collection') :
                    /\ c.metadata.source_path = file_path
                    /\ CopiesIn(c, collection') > CopiesIn(c, collection)
              /\ DOMAIN ingested_files' = DOMAIN ingested_files \cup {name}
              /\ ingested_files'[name].path = file_path
              /\ ingested_files'[name].size = fs[Resolve(file_path)].size
              /\ \A k \in DOMAIN ingested_files :
                    k # name => ingested_files'[k] = ingested_files[k]]_vars

\* kb/a.txt, then kb/sub/a.txt were ingested: the index holds the chunks of
\* both, the ledger one entry, the record of kb/sub/a.txt
C19_Witness ==
    /\ {"kb/a.txt", "kb/sub/a.txt"} \subseteq StoredPaths
    /\ DOMAIN ingested_files = {"a.txt"}
    /\ ingested_files["a.txt"].path = "kb/sub/a.txt"
    /\ last.file_path = "kb/sub/a.txt" /\ last.success
    /\ Cardinality(DOMAIN ingested_files) < Cardinality(StoredPaths)

\* the distinct chunks of the index that came from a path
ChunksOf(file_path) ==
    {c \in BagToSet(collection) : c.metadata.source_path = file_path}

C14_ScanEligibility ==
    (scanned # NoScan /\ IsDir(scanned.directory_path)) =>
        /\ scanned.stats.total_files =
              Len(AllFiles(scanned.directory_path, scanned.recursive))
        /\ scanned.stats.total_files =
              Len(SelectSeq(Glob(scanned.directory_path, scanned.recursive),
                            LAMBDA p : /\ IsFile(p)
                                       /\ KindOf(p) \notin {"BinarySkip",
                                                            "Unsupported"}))

(* C16: search never raises.  A search_knowledge call returns exactly one *)
(* sentinel result, "Knowledge base not available", when the vector store *)
(* is None, and exactly one sentinel error result, "Knowledge search      *)
(* error: ...", when the query raises; no exception leaves the call, and  *)
(* the ledger and the index are as they were.                             *)
C16_SearchNeverRaises ==
    [][searched' # NoSearch =>
          /\ ~searched'.escaped
          /\ pc' # "raised"
          /\ vectorstore = "None" =>
                searched'.results =
                   <<[content |-> <<"Knowledge base not available">>,
                      source |-> "N/A"]>>
          /\ (vectorstore # "None" /\ searched'.answer.raised) =>
                searched'.results =
                   <<[content |-> <<"Knowledge search error: ",
                                    searched'.answer.error>>,
                      source |-> "N/A"]>>
          /\ collection' = collection
          /\ ingested_files' = ingested_files]_vars

\* the query raised while the knowledge base held ingested chunks
C16_Witness ==
    /\ searched.answer.raised
    /\ Len(searched.results) = 1
    /\ searched.results[1].source = "N/A"
    /\ collection # EmptyBag
    /\ DOMAIN ingested_files # {}

\* the last search_knowledge call queried the store and got a list back
Answered ==
    searched # NoSearch /\ vectorstore # "None" /\ ~searched.answer.raised

\* the store returned its hits by ascending distance
Ascending(docs) ==
    \A i, j \in 1..Len(docs) : i < j => docs[i].score <= docs[j].score

(* C17: search ordering and size.  With the store available,              *)
(* search_knowledge(query, k) returns at most k results, one per chunk    *)
(* the store returned and in the store's order, the i-th result carrying  *)
(* the content and provenance of the i-th chunk; when the store returns   *)
(* its chunks by ascending distance, the results are in descending        *)
(* (never increasing) similarity.                                         *)
C17_SearchOrderAndSize ==
    Answered =>
       LET docs == searched.answer.docs
           results == searched.results
       IN  /\ Len(results) <= searched.k
           /\ Len(results) = Len(docs)
           /\ \A i \in 1..Len(docs) :
                 /\ DOMAIN results[i] =
                       {"content", "source_file", "file_type", "source_path",
                        "relevance_score", "chunk_size"}
                 /\ results[i].content = docs[i].doc.page_content
                 /\ results[i].source_path = docs[i].doc.metadata.source_path
                 /\ results[i].source_file = docs[i].doc.metadata.source_file
                 /\ results[i].chunk_size = docs[i].doc.metadata.chunk_size
                 /\ 10 * results[i].relevance_score - (ScoreOne - docs[i].score)
                       \in -5..5
           /\ Ascending(docs) =>
                 \A i, j \in 1..Len(results) :
                    i < j => results[i].relevance_score >=
                                results[j].relevance_score

\* k = 2 of the three chunks held came back, nearest first, from two files
C17_Witness ==
    /\ Answered
    /\ searched.k = 2
    /\ BagCardinality(collection) = 3
    /\ Len(searched.results) = 2
    /\ searched.results[1].source_path # searched.results[2].source_path
    /\ searched.answer.docs[1].score < searched.answer.docs[2].score
    /\ searched.results[1].relevance_score > searched.results[2].relevance_score

\* the hits of the last answered search: distance and reported similarity
\* (in hundredths of a percent)
Reported ==
    {[d |-> searched.answer.docs[i].score,
      similarity |-> searched.results[i].relevance_score] :
        i \in 1..Len(searched.answer.docs)}

InUnitRange(d) == 0 <= d /\ d <= ScoreOne

(* C18 as stated: each distance d is reported as exactly (1 - d) * 100    *)
(* percent; for d in [0,1] the reported similarity is in 0..100 and       *)
(* strictly decreasing in d; for d outside [0,1] it is below 0 or above   *)
(* 100.                                                                   *)
C18_ExactAndStrict ==
    Answered =>
       /\ \A h \in Reported :
             /\ 10 * h.similarity = ScoreOne - h.d
             /\ InUnitRange(h.d) => h.similarity \in 0..10000
             /\ ~InUnitRange(h.d) => h.similarity < 0 \/ h.similarity > 10000
       /\ \A g, h \in Reported :
             (InUnitRange(g.d) /\ InUnitRange(h.d) /\ g.d < h.d)
                => g.similarity > h.similarity

(* C18, amended: each distance d is reported as (1 - d) * 100 percent     *)
(* rounded to two decimals.  For d in [0,1] the reported similarity is in *)
(* 0..100 and never increasing in d, and strictly decreasing between      *)
(* distances more than 0.0001 apart; a d outside [0,1] by more than       *)
(* 0.00005 is reported below 0 or above 100, never clamped.               *)
C18_RoundedAndMonotone ==
    Answered =>
       /\ \A h \in Reported :
             /\ 10 * h.similarity - (ScoreOne - h.d) \in -5..5
             /\ InUnitRange(h.d) => h.similarity \in 0..10000
             /\ h.d > ScoreOne + 5 => h.similarity < 0
             /\ h.d < -5 => h.similarity > 10000
       /\ \A g, h \in Reported :
             /\ g.d <= h.d => g.similarity >= h.similarity
             /\ h.d - g.d > 10 => g.similarity > h.similarity

\* one answer with two distances in [0,1] reported alike, 100.00%, and a
\* distance above 1 reported below 0
C18_Witness ==
    /\ Answered
    /\ \E g, h \in Reported :
          /\ InUnitRange(g.d) /\ InUnitRange(h.d)
          /\ g.d < h.d
          /\ g.similarity = 10000 /\ h.similarity = 10000
    /\ \E h \in Reported : h.d > ScoreOne /\ h.similarity < 0

(* C22: the ledger reflects successes only.  A successful add_knowledge   *)
(* call writes the entry of the file's basename, recording the path and   *)
(* the number of chunks (at least one) the call has just stored in the    *)
(* index; a call that does not succeed, and every other step, leaves the  *)
(* ledger as it was; no entry is ever removed, and each entry is keyed by *)
(* the basename of the path it records.                                   *)
C22_LedgerReflectsSuccesses ==
    [][/\ DOMAIN ingested_files \subseteq DOMAIN ingested_files'
       /\ \A name \in DOMAIN ingested_files' :
             Name(ingested_files'[name].path) = name
       /\ IF CalledAddKnowledge /\ last'.success
          THEN LET name == Name(last'.file_path)
               IN  /\ name \in DOMAIN ingested_files'
                   /\ ingested_files'[name].path = last'.file_path
                   /\ ingested_files'[name].chunks >= 1
                   /\ ingested_files'[name].chunks =
                         BagCardinality(collection') - BagCardinality(collection)
                   /\ \A k \in DOMAIN ingested_files :
                         k # name => ingested_files'[k] = ingested_files[k]
          ELSE ingested_files' = ingested_files]_vars

\* a call has just failed on a file that cannot be ingested, and the two
\* entries earlier calls made are still there
C22_Witness ==
    /\ last # NoCall /\ ~last.success
    /\ Cardinality(DOMAIN ingested_files) = 2
    /\ \A name \in DOMAIN ingested_files :
          ingested_files[name].chunks >= 1

\* the files under the root of the running / last batch
BatchGlob == Glob(batch.directory_path, batch.recursive)

NotCandidate(file_path) ==
    IsFile(file_path) /\ KindOf(file_path) \in {"BinarySkip", "Unsupported"}

(* C23: skipped candidates never reach extraction.  In a batch over an    *)
(* existing directory the files whose extension is in the skip table or   *)
(* not in the supported table are exactly those counted in skipped_count; *)
(* none of them, and no directory, is a candidate or is passed to         *)
(* add_knowledge, and none adds to success_count, fail_count or errors.   *)
C23_SkippedNeverExtracted ==
    (batch # NoBatch /\ ~RootMissing(batch.directory_path)) =>
        /\ batch.skipped_count = Len(SelectSeq(BatchGlob, NotCandidate))
        /\ \A i \in 1..Len(batch.all_files) :
              /\ ~IsDir(batch.all_files[i])
              /\ ~NotCandidate(batch.all_files[i])
        /\ Len(batch.all_files) + batch.skipped_count =
              Len(SelectSeq(BatchGlob, IsFile))
        /\ \A i \in 1..Len(batch.calls) :
              /\ ~IsDir(batch.calls[i].file_path)
              /\ ~NotCandidate(batch.calls[i].file_path)
              /\ \E j \in 1..Len(batch.all_files) :
                    batch.all_files[j] = batch.calls[i].file_path
        /\ batch.success_count + batch.fail_count <= Len(batch.calls)
        /\ \A i \in 1..Len(batch.errors) :
              \E j \in 1..Len(batch.calls) :
                 batch.errors[i][1] = Name(batch.calls[j].file_path)

\* the recursive batch over kb has finished: three files were skipped in
\* the enumeration, the directory kb/sub was passed over, and the other
\* files were counted
C23_Witness ==
    /\ pc = "done"
    /\ batch.directory_path = "kb" /\ batch.recursive
    /\ batch.skipped_count = 3
    /\ batch.success_count + batch.fail_count = 4
    /\ batch.success_count >= 1

\* the calls whose results the state holds: the last one and those of the
\* running / last batch
CallsHeld == {last} \cup {batch.calls[i] : i \in 1..Len(batch.calls)}

\* the file of the call is there but cannot be read: open() or the PDF
\* parser raises inside _load_file
ExtractionRaised(call) ==
    /\ call # NoCall
    /\ IsFile(call.file_path)
    /\ ~NotCandidate(call.file_path)
    /\ ~fs[Resolve(call.file_path)].readable

(* C24 as stated: whenever a step of the single-file path raises,         *)
(* extraction included, add_knowledge returns a failure that carries the  *)
(* exception text, and the raising step is never reported as an           *)
(* empty-content skip.                                                    *)
C24_EveryRaiseCaptured ==
    \A call \in CallsHeld :
       ExtractionRaised(call) =>
          /\ Contains(call.message, "Error: ")
          /\ ~Contains(call.message, "No content extracted")

(* C24, amended: when chunking, the index write or the ledger update      *)
(* raises, add_knowledge returns a failure whose message is "Error: "     *)
(* and the exception text cut to at most 100 characters, and a batch      *)
(* records the file in errors; when extraction raises, _load_file         *)
(* swallows the exception and the file is reported as "No content         *)
(* extracted", an empty-content skip that a batch keeps out of errors.    *)
C24_RaiseCapturedOrSilent ==
    [][/\ nfaults' = nfaults + 1 =>
             /\ ~last'.success
             /\ Len(last'.message) = 2
             /\ last'.message[1] = "Error: "
             /\ StrLen(last'.message[2]) <= 100
             /\ \E fault \in Faults \ {"none"} :
                   \/ last'.message[2] = Raised(fault)
                   \/ /\ StrLen(Raised(fault)) > 100
                      /\ last'.message[2] = Truncate(Raised(fault), 100)
             /\ ~Contains(last'.message, "No content extracted")
             /\ pc = "loop" =>
                   batch'.errors =
                      Append(batch.errors,
                             <<Name(last'.file_path), ": ">> \o last'.message)
       /\ (CalledAddKnowledge /\ ExtractionRaised(last')) =>
             /\ ~last'.success
             /\ last'.message =
                   <<"No content extracted", " from ", Name(last'.file_path)>>
             /\ pc = "loop" => batch'.errors = batch.errors]_vars

\* the index write raised a long exception in a batch: the message holds
\* its first 100 characters and the batch has the file in errors
C24_Witness ==
    /\ pc = "done"
    /\ last.message = <<"Error: ",
                        "embedding backend failure <first 100 characters>">>
    /\ \E i \in 1..Len(batch.errors) :
          batch.errors[i] = <<Name(last.file_path), ": ">> \o last.message

\* a recursive batch, as ingest_knowledge_base runs it, has returned
WrapperReturned == pc = "done" /\ batch # NoBatch /\ batch.recursive

\* how many calls of the batch succeeded / did not
Succeeded == Cardinality({i \in 1..Len(batch.calls) : batch.calls[i].success})

Failed == Cardinality({i \in 1..Len(batch.calls) : ~batch.calls[i].success})

(* C29: batch result flag.  ingest_knowledge_base reports success exactly *)
(* when the batch's fail_count is 0 and passes success_count, fail_count  *)
(* and errors through: over an existing directory with candidates they    *)
(* are the numbers of calls that succeeded and that did not, and the      *)
(* batch's error list.  A batch whose candidates all succeed reports      *)
(* success with no errors; one with a genuinely failed file reports       *)
(* failure.                                                               *)
C29_BatchResultFlag ==
    WrapperReturned =>
       LET result == ingest_knowledge_base(report)
       IN  /\ result.success <=> report.fail_count = 0
           /\ result.errors = report.errors
           /\ batch.calls # <<>> =>
                 /\ result.success_count = Succeeded
                 /\ result.fail_count = Failed
                 /\ result.errors = batch.errors
                 /\ Failed = 0 => result.success /\ result.errors = <<>>
                 /\ result.success => Failed = 0
           /\ (\E i \in 1..Len(batch.calls) :
                  /\ ~batch.calls[i].success
                  /\ IsRealError(batch.calls[i].message))
                 => ~result.success /\ result.errors # <<>>

\* a recursive batch over kb/sub has returned with both files ingested
C29_Witness ==
    /\ WrapperReturned
    /\ Succeeded = 2 /\ Failed = 0
    /\ ingest_knowledge_base(report) =
          [success |-> TRUE, success_count |-> 2, fail_count |-> 0,
           errors |-> <<>>]

\* the files of the tree the extractor reads as text, and as PDF
TextLike ==
    {f \in DOMAIN fs :
        Lower(Suffix(f)) \in TEXT_DOC_EXTENSIONS \cup CODE_EXTENSIONS}

PdfLike == {f \in DOMAIN fs : Lower(Suffix(f)) = ".pdf"}

\* what _load_file returns for a file as it is now
Extracted(f) == load_file(f, fs[f])

(* C27 as stated: for a text or source file the extractor returns none    *)
(* exactly when the stripped content has fewer than 10 characters.        *)
C27_NoneOnlyBelowThreshold ==
    \A f \in TextLike :
       Extracted(f) = <<>> =>
          /\ fs[f].pages # <<>>
          /\ fs[f].pages[1].len - fs[f].pages[1].ws < 10

(* C27, amended: for a text, markup, source-code or config file the       *)
(* extractor returns none exactly when the file cannot be read or its     *)
(* stripped content has fewer than 10 characters, and one document        *)
(* otherwise (exactly 10 characters are extracted); for a PDF it returns  *)
(* none exactly when the size is below 100 bytes, parsing raises, or      *)
(* every page's stripped text has fewer than 50 characters, and one       *)
(* document per page otherwise (exactly 100 bytes are parsed).  What      *)
(* add_knowledge answers agrees: "No content extracted" exactly for none. *)
C27_ExtractionThresholds ==
    /\ \A f \in TextLike :
          /\ Extracted(f) = <<>> <=>
                \/ ~fs[f].readable
                \/ fs[f].pages[1].len - fs[f].pages[1].ws < 10
          /\ Extracted(f) # <<>> => Len(Extracted(f)) = 1
    /\ \A f \in PdfLike :
          /\ Extracted(f) = <<>> <=>
                \/ fs[f].size < 100
                \/ ~fs[f].readable
                \/ \A i \in 1..Len(fs[f].pages) :
                      fs[f].pages[i].len - fs[f].pages[i].ws < 50
          /\ Extracted(f) # <<>> =>
                Len(Extracted(f)) = Len(fs[f].pages) /\ Len(fs[f].pages) >= 1
    /\ (last # NoCall /\ Resolve(last.file_path) \in TextLike \cup PdfLike) =>
          (Contains(last.message, "No content extracted")
              <=> Extracted(Resolve(last.file_path)) = <<>>)

\* a text file of exactly 10 characters has been ingested as one chunk,
\* next to a PDF of exactly 100 bytes that was parsed and a source file of
\* 9 characters that yields nothing
C27_Witness ==
    /\ fs["kb/a.txt"].pages = <<Page(10, 0)>>
    /\ last.file_path = "kb/a.txt" /\ last.success
    /\ ingested_files["a.txt"].chunks = 1
    /\ fs["kb/doc.pdf"].size = 100 /\ Extracted("kb/doc.pdf") # <<>>
    /\ fs["kb/sub/MAIN.PY"].pages = <<Page(9, 0)>>
    /\ Extracted("kb/sub/MAIN.PY") = <<>>

\* the positions of a page's text held by the chunks the index has for a
\* path: a chunk spans lo..hi-1 of the text left after the strip, and the
\* page's ws whitespace characters are in no chunk
Covered(file_path, page) ==
    UNION {c.page_content.lo .. (c.page_content.hi - 1) :
              c \in {d \in ChunksOf(file_path) : d.page_content.text = page}}

(* C21: chunk coverage.  For any extracted text longer than the chunk     *)
(* size, the chunks produced for it cover the text: every original        *)
(* character of the document, whitespace included, is in at least one     *)
(* chunk's content.                                                       *)
C21_ChunksCoverText ==
    (last # NoCall /\ last.success) =>
       \A i \in 1..Len(Extracted(last.file_path)) :
          LET page == Extracted(last.file_path)[i].page_content
          IN  page.len > TEXT_SPLITTER_CHUNK_SIZE =>
                 Cardinality(Covered(last.file_path, page)) = page.len

(* C30 as stated: CLI outcome reporting.  For every path entered in the   *)
(* knowledge command the CLI prints the success line only when the        *)
(* single-file ingestion succeeded, and the failure line whenever it      *)
(* failed or was skipped.                                                 *)
C30_CliReportsOutcome ==
    last # NoCall =>
       /\ printed = LineAdded => last.success
       /\ ~last.success => printed = LineFailed

(* C25: auto-ingest decision.  Given a scan total T >= 1 and a ledger of  *)
(* L entries, the startup decision skips the batch exactly when           *)
(* L >= T - floor(0.05 * T), and otherwise runs exactly one batch, over   *)
(* the knowledge base and recursive; when the scan reports an error or    *)
(* T = 0, no batch is run.                                                *)
C25_AutoIngestDecision ==
    startup.decision # "" =>
       IF "error" \in DOMAIN startup.scan_results
       THEN startup.decision = "error" /\ startup.batches = <<>>
       ELSE LET T == startup.scan_results.total_files
                L == startup.ingested_count
            IN  IF T = 0
                THEN startup.decision = "empty" /\ startup.batches = <<>>
                ELSE /\ startup.decision \in {"skip", "ingest"}
                     /\ startup.decision = "skip" <=> L >= T - (T \div 20)
                     /\ startup.decision = "skip" => startup.batches = <<>>
                     /\ startup.decision = "ingest" =>
                           startup.batches =
                              <<[directory_path |-> startup.knowledge_base,
                                 recursive |-> TRUE]>>

\* 40 files scanned and 38 in the ledger: within the tolerance of 2, the
\* batch is skipped
C25_Witness ==
    /\ startup.scan_results = [total_files |-> 40]
    /\ startup.ingested_count = 38
    /\ startup.decision = "skip"

\* the step is a process start
Started == startup'.starts = startup.starts + 1

(* C28: every start re-ingests.  A newly constructed engine has an empty  *)
(* ledger while the index keeps what earlier processes stored, so at      *)
(* construction the ledger size compared is 0 and, for a knowledge base   *)
(* with at least one scanned file, the skip branch is not taken: the      *)
(* start runs one full recursive batch over the knowledge base.  Hence,   *)
(* over an unchanged corpus, once the batch of a start has finished the   *)
(* index holds every chunk of every file that batch ingested as many      *)
(* times as there were starts whose vector store came up.                 *)
C28_EveryStartReingests ==
    /\ [][Started =>
            /\ ingested_files' = [k \in {} |-> k]
            /\ startup'.ingested_count = 0
            /\ collection' = collection
            /\ startup'.decision # "skip"
            /\ startup'.scan_results.total_files >= 1 =>
                  /\ startup'.decision = "ingest"
                  /\ pc' \in {"loop", "done"}
                  /\ batch'.directory_path = startup.knowledge_base
                  /\ batch'.recursive
                  /\ batch'.all_files =
                        AllFiles(startup.knowledge_base, TRUE)]_vars
    /\ [](pc = "done" =>
            \A i \in 1..Len(batch.calls) :
               batch.calls[i].success =>
                  /\ ChunksOf(batch.calls[i].file_path) # {}
                  /\ \A c \in ChunksOf(batch.calls[i].file_path) :
                        CopiesIn(c, collection) = startup.stored)

\* the third start has finished its batch: the ledger has the one entry of
\* a.txt and the index holds the chunks of kb/a.txt three times
C28_Witness ==
    /\ startup.starts = 3 /\ startup.stored = 3
    /\ pc = "done"
    /\ "a.txt" \in DOMAIN ingested_files
    /\ ChunksOf("kb/a.txt") # {}
    /\ \A c \in ChunksOf("kb/a.txt") : CopiesIn(c, collection) = 3

\* the ledger one ingest_directory call alone leaves: for every filename,
\* the entry of the last file of that name the call ingests
SingleRunLedger(directory_path, recursive) ==
    LET all == AllFiles(directory_path, recursive)
        called == {i \in 1..Len(all) :
                     \A j \in 1..(i - 1) : FileId(all[j]) # FileId(all[i])}
        ok == {i \in called : add_knowledge(all[i], "none").success}
        LastOf(k) == CHOOSE i \in ok :
                        /\ Name(all[i]) = k
                        /\ \A j \in ok : Name(all[j]) = k => j <= i
    IN  [k \in {Name(all[i]) : i \in ok} |->
            add_knowledge(all[LastOf(k)], "none").ingested_files[k]]

\* the threads that have entered ingest_directory, and whether all of them
\* have returned
Entered == {t \in Threads : threads[t].pc # "idle"}

AllReturned == Entered # {} /\ \A t \in Entered : threads[t].pc = "done"

(* C26: unserialised batches double-count.  ingest_directory calls over   *)
(* the same directory running concurrently on one engine each submit      *)
(* every file's chunks to the index: the index holds a file's chunks once *)
(* per call that has submitted them, while the ledger holds at most one   *)
(* entry per filename; and when all the calls have returned, the ledger   *)
(* is the ledger a single run produces.                                   *)
C26_UnserialisedBatches ==
    /\ \A t \in Entered :
          \A i \in 1..Len(threads[t].batch.calls) :
             LET call == threads[t].batch.calls[i]
             IN  call.success =>
                    /\ Name(call.file_path) \in DOMAIN ingested_files
                    /\ \A c \in ChunksOf(call.file_path) :
                          CopiesIn(c, collection) >=
                             Cardinality({u \in Entered :
                                \E j \in 1..Len(threads[u].batch.calls) :
                                   threads[u].batch.calls[j] = call})
    /\ AllReturned =>
          \A t \in Entered :
             ingested_files =
                SingleRunLedger(threads[t].batch.directory_path,
                                threads[t].batch.recursive)

\* both calls are running; both have written the chunks of kb/a.txt to the
\* index, which holds them twice, and only one has written the ledger
\* entry of a.txt so far
C26_Witness ==
    /\ threads[1].pc = "record" /\ threads[1].out.file_path = "kb/a.txt"
    /\ threads[2].pc = "loop"
    /\ threads[2].batch.calls # <<>>
    /\ threads[2].batch.calls[1].file_path = "kb/a.txt"
    /\ "a.txt" \in DOMAIN ingested_files
    /\ ChunksOf("kb/a.txt") # {}
    /\ \A c \in ChunksOf("kb/a.txt") : CopiesIn(c, collection) = 2

====
